---- MODULE Spec2Model ----
\* A model of the two artifacts of the repository:
\*   - ink_lang_ir/ir/attrs/sidebar-items.js, the generated sidebar index:
\*     one statement, a call of initSidebarItems with an object literal;
\*   - the ERC20 contract tutorial, a sequence of steps its reader performs
\*     against a local node and a contract front end.
\* Strings of the sidebar literal are sequences of their UTF-16 code units,
\* as JavaScript compares and indexes them.
EXTENDS Integers, Sequences, FiniteSets, TLC

\* How many times a page may load the sidebar file.
MaxLoads == 3
\* The page's other global state takes the values 0..MaxPageState.
MaxPageState == 2

----------------------------------------------------------------------------
\* sidebar-items.js

\* enum[0][0], the identifier:
\*   Attribute
enum_1_name ==
    <<65, 116, 116, 114, 105, 98, 117, 116, 101>>
\* enum[0][1], the description:
\*   Either an ink! specific attribute, or another uninterpreted attribute.
enum_1_desc ==
    <<69, 105, 116, 104, 101, 114, 32, 97, 110, 32, 105, 110, 107, 33, 32,
    115, 112, 101, 99, 105, 102, 105, 99, 32, 97, 116, 116, 114, 105, 98,
    117, 116, 101, 44, 32, 111, 114, 32, 97, 110, 111, 116, 104, 101, 114,
    32, 117, 110, 105, 110, 116, 101, 114, 112, 114, 101, 116, 101, 100, 32,
    97, 116, 116, 114, 105, 98, 117, 116, 101, 46>>

\* enum[1][0], the identifier:
\*   AttributeArgKind
enum_2_name ==
    <<65, 116, 116, 114, 105, 98, 117, 116, 101, 65, 114, 103, 75, 105, 110,
    100>>
\* enum[1][1], the description:
\*   An ink! specific attribute flag.
enum_2_desc ==
    <<65, 110, 32, 105, 110, 107, 33, 32, 115, 112, 101, 99, 105, 102, 105,
    99, 32, 97, 116, 116, 114, 105, 98, 117, 116, 101, 32, 102, 108, 97,
    103, 46>>

\* fn[0][0], the identifier:
\*   contains_ink_attributes
fn_1_name ==
    <<99, 111, 110, 116, 97, 105, 110, 115, 95, 105, 110, 107, 95, 97, 116,
    116, 114, 105, 98, 117, 116, 101, 115>>
\* The description of fn[0] broken over two lines after its first word.
fn_1_desc_TwoLines ==
    <<82, 101, 116, 117, 114, 110, 115, 10, 96, 116, 114, 117, 101, 96, 32,
    105, 102, 32, 116, 104, 101, 32, 103, 105, 118, 101, 110, 32, 105, 116,
    101, 114, 97, 116, 111, 114, 32, 121, 105, 101, 108, 100, 115, 32, 97,
    116, 32, 108, 101, 97, 115, 116, 32, 111, 110, 101, 32, 97, 116, 116,
    114, 105, 98, 117, 116, 101, 32, 111, 102, 32, 116, 104, 101, 32, 102,
    111, 114, 109, 32, 96, 35, 91, 105, 110, 107, 40, 46, 46, 41, 93, 96,
    32, 111, 114, 32, 96, 35, 91, 105, 110, 107, 93, 96, 46>>
\* fn[0][1], the description:
\*   Returns `true` if the given iterator yields at least one attribute of
\*   the form `#[ink(..)]` or `#[ink]`.
fn_1_desc ==
    <<82, 101, 116, 117, 114, 110, 115, 32, 96, 116, 114, 117, 101, 96, 32,
    105, 102, 32, 116, 104, 101, 32, 103, 105, 118, 101, 110, 32, 105, 116,
    101, 114, 97, 116, 111, 114, 32, 121, 105, 101, 108, 100, 115, 32, 97,
    116, 32, 108, 101, 97, 115, 116, 32, 111, 110, 101, 32, 97, 116, 116,
    114, 105, 98, 117, 116, 101, 32, 111, 102, 32, 116, 104, 101, 32, 102,
    111, 114, 109, 32, 96, 35, 91, 105, 110, 107, 40, 46, 46, 41, 93, 96,
    32, 111, 114, 32, 96, 35, 91, 105, 110, 107, 93, 96, 46>>

\* The identifier of fn[1] with its first letter in upper case: it no
\* longer sorts after fn[0].
fn_2_name_Unsorted ==
    <<69, 114, 114, 95, 110, 111, 110, 95, 104, 101, 120>>
\* fn[1][0], the identifier:
\*   err_non_hex
fn_2_name ==
    <<101, 114, 114, 95, 110, 111, 110, 95, 104, 101, 120>>
\* fn[1][1], the description:
\*   Returns an error to notify about non-hex digits at a position.
fn_2_desc ==
    <<82, 101, 116, 117, 114, 110, 115, 32, 97, 110, 32, 101, 114, 114, 111,
    114, 32, 116, 111, 32, 110, 111, 116, 105, 102, 121, 32, 97, 98, 111,
    117, 116, 32, 110, 111, 110, 45, 104, 101, 120, 32, 100, 105, 103, 105,
    116, 115, 32, 97, 116, 32, 97, 32, 112, 111, 115, 105, 116, 105, 111,
    110, 46>>

\* fn[2][0], the identifier:
\*   first_ink_attribute
fn_3_name ==
    <<102, 105, 114, 115, 116, 95, 105, 110, 107, 95, 97, 116, 116, 114,
    105, 98, 117, 116, 101>>
\* fn[2][1], the description:
\*   Returns the first valid ink! attribute, if any.
fn_3_desc ==
    <<82, 101, 116, 117, 114, 110, 115, 32, 116, 104, 101, 32, 102, 105,
    114, 115, 116, 32, 118, 97, 108, 105, 100, 32, 105, 110, 107, 33, 32,
    97, 116, 116, 114, 105, 98, 117, 116, 101, 44, 32, 105, 102, 32, 97,
    110, 121, 46>>

\* fn[3][0], the identifier:
\*   invalid_selector_err_regex
fn_4_name ==
    <<105, 110, 118, 97, 108, 105, 100, 95, 115, 101, 108, 101, 99, 116,
    111, 114, 95, 101, 114, 114, 95, 114, 101, 103, 101, 120>>
\* fn[3][1], the description:
\*   Returns an error to notify about an invalid ink! selector.
fn_4_desc ==
    <<82, 101, 116, 117, 114, 110, 115, 32, 97, 110, 32, 101, 114, 114, 111,
    114, 32, 116, 111, 32, 110, 111, 116, 105, 102, 121, 32, 97, 98, 111,
    117, 116, 32, 97, 110, 32, 105, 110, 118, 97, 108, 105, 100, 32, 105,
    110, 107, 33, 32, 115, 101, 108, 101, 99, 116, 111, 114, 46>>

\* fn[4][0], the identifier:
\*   partition_attributes
fn_5_name ==
    <<112, 97, 114, 116, 105, 116, 105, 111, 110, 95, 97, 116, 116, 114,
    105, 98, 117, 116, 101, 115>>
\* fn[4][1], the description:
\*   Partitions the given attributes into ink! specific and non-ink!
\*   specific attributes.
fn_5_desc ==
    <<80, 97, 114, 116, 105, 116, 105, 111, 110, 115, 32, 116, 104, 101, 32,
    103, 105, 118, 101, 110, 32, 97, 116, 116, 114, 105, 98, 117, 116, 101,
    115, 32, 105, 110, 116, 111, 32, 105, 110, 107, 33, 32, 115, 112, 101,
    99, 105, 102, 105, 99, 32, 97, 110, 100, 32, 110, 111, 110, 45, 105,
    110, 107, 33, 32, 115, 112, 101, 99, 105, 102, 105, 99, 32, 97, 116,
    116, 114, 105, 98, 117, 116, 101, 115, 46>>

\* fn[5][0], the identifier:
\*   sanitize_attributes
fn_6_name ==
    <<115, 97, 110, 105, 116, 105, 122, 101, 95, 97, 116, 116, 114, 105, 98,
    117, 116, 101, 115>>
\* fn[5][1], the description:
\*   Sanitizes the given attributes.
fn_6_desc ==
    <<83, 97, 110, 105, 116, 105, 122, 101, 115, 32, 116, 104, 101, 32, 103,
    105, 118, 101, 110, 32, 97, 116, 116, 114, 105, 98, 117, 116, 101, 115,
    46>>

\* The identifier of struct[0] repeating that of enum[0].
struct_1_name_Duplicate ==
    <<65, 116, 116, 114, 105, 98, 117, 116, 101>>
\* struct[0][0], the identifier:
\*   AttributeArg
struct_1_name ==
    <<65, 116, 116, 114, 105, 98, 117, 116, 101, 65, 114, 103>>
\* struct[0][1], the description:
\*   An ink! specific attribute argument.
struct_1_desc ==
    <<65, 110, 32, 105, 110, 107, 33, 32, 115, 112, 101, 99, 105, 102, 105,
    99, 32, 97, 116, 116, 114, 105, 98, 117, 116, 101, 32, 97, 114, 103,
    117, 109, 101, 110, 116, 46>>

\* struct[1][0], the identifier:
\*   InkAttribute
struct_2_name ==
    <<73, 110, 107, 65, 116, 116, 114, 105, 98, 117, 116, 101>>
\* struct[1][1], the description:
\*   An ink! specific attribute.
struct_2_desc ==
    <<65, 110, 32, 105, 110, 107, 33, 32, 115, 112, 101, 99, 105, 102, 105,
    99, 32, 97, 116, 116, 114, 105, 98, 117, 116, 101, 46>>

\* struct[2][0], the identifier:
\*   Namespace
struct_3_name ==
    <<78, 97, 109, 101, 115, 112, 97, 99, 101>>
\* struct[2][1], the description:
\*   An ink! namespace applicable to a trait implementation block.
struct_3_desc ==
    <<65, 110, 32, 105, 110, 107, 33, 32, 110, 97, 109, 101, 115, 112, 97,
    99, 101, 32, 97, 112, 112, 108, 105, 99, 97, 98, 108, 101, 32, 116, 111,
    32, 97, 32, 116, 114, 97, 105, 116, 32, 105, 109, 112, 108, 101, 109,
    101, 110, 116, 97, 116, 105, 111, 110, 32, 98, 108, 111, 99, 107, 46>>

\* trait[0][0], the identifier:
\*   Attrs
trait_1_name ==
    <<65, 116, 116, 114, 115>>
\* trait[0][1], the description:
\*   Types implementing this trait can return a slice over their `syn`
\*   attributes.
trait_1_desc ==
    <<84, 121, 112, 101, 115, 32, 105, 109, 112, 108, 101, 109, 101, 110,
    116, 105, 110, 103, 32, 116, 104, 105, 115, 32, 116, 114, 97, 105, 116,
    32, 99, 97, 110, 32, 114, 101, 116, 117, 114, 110, 32, 97, 32, 115, 108,
    105, 99, 101, 32, 111, 118, 101, 114, 32, 116, 104, 101, 105, 114, 32,
    96, 115, 121, 110, 96, 32, 97, 116, 116, 114, 105, 98, 117, 116, 101,
    115, 46>>

\* The object literal with a fifth category key.
SidebarItems_ExtraKey ==
    [ enum |-> <<<<enum_1_name, enum_1_desc>>,
                 <<enum_2_name, enum_2_desc>>>>,
      fn |-> <<<<fn_1_name, fn_1_desc>>,
               <<fn_2_name, fn_2_desc>>,
               <<fn_3_name, fn_3_desc>>,
               <<fn_4_name, fn_4_desc>>,
               <<fn_5_name, fn_5_desc>>,
               <<fn_6_name, fn_6_desc>>>>,
      struct |-> <<<<struct_1_name, struct_1_desc>>,
                   <<struct_2_name, struct_2_desc>>,
                   <<struct_3_name, struct_3_desc>>>>,
      trait |-> <<<<trait_1_name, trait_1_desc>>>>,
      mod |-> <<>> ]

\* The object literal passed to initSidebarItems.
SidebarItems ==
    [ enum |-> <<<<enum_1_name, enum_1_desc>>,
                 <<enum_2_name, enum_2_desc>>>>,
      fn |-> <<<<fn_1_name, fn_1_desc>>,
               <<fn_2_name, fn_2_desc>>,
               <<fn_3_name, fn_3_desc>>,
               <<fn_4_name, fn_4_desc>>,
               <<fn_5_name, fn_5_desc>>,
               <<fn_6_name, fn_6_desc>>>>,
      struct |-> <<<<struct_1_name, struct_1_desc>>,
                   <<struct_2_name, struct_2_desc>>,
                   <<struct_3_name, struct_3_desc>>>>,
      trait |-> <<<<trait_1_name, trait_1_desc>>>> ]

\* The file with its statement repeated.
SidebarScript_Twice ==
    << [callee |-> "initSidebarItems", args |-> <<SidebarItems>>],
       [callee |-> "initSidebarItems", args |-> <<SidebarItems>>] >>

\* The statements of sidebar-items.js, in order: a single expression
\* statement, the call initSidebarItems({...}) with one argument.
SidebarScript ==
    << [callee |-> "initSidebarItems", args |-> <<SidebarItems>>] >>

----------------------------------------------------------------------------
\* The ERC20 contract tutorial

Accounts == {"Alice", "Bob", "Charlie"}

\* A step of the tutorial: the operation, its parameters, and the screenshot
\* that illustrates it. Fields a step does not use are "-" and 0.
Step(op, owner, spender, to, value, img) ==
    [op |-> op, owner |-> owner, spender |-> spender, to |-> to,
     value |-> value, img |-> img]

\* The tutorial with the Approve and TransferFrom steps exchanged.
Steps_TransferFromFirst ==
    << Step("Compile", "-", "-", "-", 0, "complile"),
       Step("NodeSetup", "-", "-", "-", 0, "-"),
       Step("Upload", "-", "-", "-", 0, "Deploy"),
       Step("Instantiate", "Alice", "-", "-", 1000, "Initial"),
       Step("CheckBalance", "-", "-", "-", 0, "Balance"),
       Step("Transfer", "Alice", "-", "Bob", 100, "transfer"),
       Step("CheckBalance", "-", "-", "-", 0, "transfer_balance"),
       Step("TransferFrom", "Alice", "Charlie", "Bob", 200, "transfer_from"),
       Step("CheckAllowance", "Alice", "Charlie", "-", 0, "allowance_check"),
       Step("Approve", "Alice", "Charlie", "-", 300, "allowance"),
       Step("CheckAllowance", "Alice", "Charlie", "-", 0, "allowance_remain"),
       Step("CheckBalance", "-", "-", "-", 0, "transfer_from_balance") >>

\* The tutorial with Charlie transferring the whole allowance.
Steps_SpendAll ==
    << Step("Compile", "-", "-", "-", 0, "complile"),
       Step("NodeSetup", "-", "-", "-", 0, "-"),
       Step("Upload", "-", "-", "-", 0, "Deploy"),
       Step("Instantiate", "Alice", "-", "-", 1000, "Initial"),
       Step("CheckBalance", "-", "-", "-", 0, "Balance"),
       Step("Transfer", "Alice", "-", "Bob", 100, "transfer"),
       Step("CheckBalance", "-", "-", "-", 0, "transfer_balance"),
       Step("Approve", "Alice", "Charlie", "-", 300, "allowance"),
       Step("CheckAllowance", "Alice", "Charlie", "-", 0, "allowance_check"),
       Step("TransferFrom", "Alice", "Charlie", "Bob", 300, "transfer_from"),
       Step("CheckAllowance", "Alice", "Charlie", "-", 0, "allowance_remain"),
       Step("CheckBalance", "-", "-", "-", 0, "transfer_from_balance") >>

\* The tutorial with Alice approving less than Charlie transfers.
Steps_SmallApprove ==
    << Step("Compile", "-", "-", "-", 0, "complile"),
       Step("NodeSetup", "-", "-", "-", 0, "-"),
       Step("Upload", "-", "-", "-", 0, "Deploy"),
       Step("Instantiate", "Alice", "-", "-", 1000, "Initial"),
       Step("CheckBalance", "-", "-", "-", 0, "Balance"),
       Step("Transfer", "Alice", "-", "Bob", 100, "transfer"),
       Step("CheckBalance", "-", "-", "-", 0, "transfer_balance"),
       Step("Approve", "Alice", "Charlie", "-", 100, "allowance"),
       Step("CheckAllowance", "Alice", "Charlie", "-", 0, "allowance_check"),
       Step("TransferFrom", "Alice", "Charlie", "Bob", 200, "transfer_from"),
       Step("CheckAllowance", "Alice", "Charlie", "-", 0, "allowance_remain"),
       Step("CheckBalance", "-", "-", "-", 0, "transfer_from_balance") >>

\* The steps of the tutorial in the order the document gives them.
Steps ==
    << Step("Compile", "-", "-", "-", 0, "complile"),
       Step("NodeSetup", "-", "-", "-", 0, "-"),
       Step("Upload", "-", "-", "-", 0, "Deploy"),
       Step("Instantiate", "Alice", "-", "-", 1000, "Initial"),
       Step("CheckBalance", "-", "-", "-", 0, "Balance"),
       Step("Transfer", "Alice", "-", "Bob", 100, "transfer"),
       Step("CheckBalance", "-", "-", "-", 0, "transfer_balance"),
       Step("Approve", "Alice", "Charlie", "-", 300, "allowance"),
       Step("CheckAllowance", "Alice", "Charlie", "-", 0, "allowance_check"),
       Step("TransferFrom", "Alice", "Charlie", "Bob", 200, "transfer_from"),
       Step("CheckAllowance", "Alice", "Charlie", "-", 0, "allowance_remain"),
       Step("CheckBalance", "-", "-", "-", 0, "transfer_from_balance") >>

\* The node started without --tmp.
Commands_NoTmp ==
    << [path |-> <<".", "target", "release", "substrate-contracts-node">>,
        args |-> <<"--dev">>] >>

\* The command lines of the tutorial's shell code blocks. A path is the
\* sequence of its components.
Commands ==
    << [path |-> <<".", "target", "release", "substrate-contracts-node">>,
        args |-> <<"--dev", "--tmp">>] >>

\* The file the Upload step hands to the front end.
ContractFile == "erc20.contract"

\* The ERC20 contract the tutorial drives, by the standard ERC20 rules.
NoBalances == [a \in Accounts |-> 0]
NoAllowances == [p \in Accounts \X Accounts |-> 0]

\* new(initial_supply): the whole supply goes to the caller.
Erc20New(caller, supply) == [NoBalances EXCEPT ![caller] = supply]

\* transfer / transfer_from fail when the owner's balance is too small.
CanTransfer(bal, from, value) == bal[from] >= value

Erc20Transfer(bal, from, to, value) ==
    [a \in Accounts |->
        bal[a] - (IF a = from THEN value ELSE 0)
               + (IF a = to THEN value ELSE 0)]

\* approve(spender, value) overwrites the allowance.
Erc20Approve(alw, owner, spender, value) ==
    [alw EXCEPT ![<<owner, spender>>] = value]

\* transfer_from fails when the spender's allowance is too small.
CanSpend(alw, owner, spender, value) == alw[<<owner, spender>>] >= value

\* transfer_from decreases the spender's allowance by the amount.
Erc20Spend(alw, owner, spender, value) ==
    [alw EXCEPT ![<<owner, spender>>] = @ - value]

----------------------------------------------------------------------------
VARIABLES
    calls,       \* the calls of initSidebarItems so far: their argument lists
    loads,       \* how many times the sidebar file has been loaded
    pageState,   \* the page's other global state
    pc,          \* the tutorial step the reader is at
    log,         \* the steps the reader has performed, in order
    compiled,    \* the contract has been compiled
    shell,       \* the command lines the reader has run
    connected,   \* the front end is open and connected to the local node
    uploaded,    \* the contract files uploaded to the front end
    live,        \* the contract has been instantiated
    balances,    \* ERC20 balance of each account
    allowances,  \* ERC20 allowance of each <<owner, spender>>
    displayed,   \* what the front end showed at the last check
    rejected     \* the steps whose operation was rejected

sidebarVars == <<calls, loads, pageState>>
tutorialVars == <<pc, log, compiled, shell, connected, uploaded, live,
                  balances, allowances, displayed, rejected>>
erc20Vars == <<live, balances, allowances>>
vars == <<calls, loads, pageState, pc, log, compiled, shell, connected,
          uploaded, live, balances, allowances, displayed, rejected>>

Init ==
    /\ calls = <<>>
    /\ loads = 0
    /\ pageState \in 0..MaxPageState
    /\ pc = 1
    /\ log = <<>>
    /\ compiled = FALSE
    /\ shell = <<>>
    /\ connected = FALSE
    /\ uploaded = {}
    /\ live = FALSE
    /\ balances = NoBalances
    /\ allowances = NoAllowances
    /\ displayed = [kind |-> "nothing"]
    /\ rejected = {}

\* The page loads sidebar-items.js: its statements run in order, each
\* calling initSidebarItems with its arguments. Nothing else is touched.
LoadSidebarItems ==
    /\ loads < MaxLoads
    /\ loads' = loads + 1
    /\ calls' = calls \o [i \in 1..Len(SidebarScript) |-> SidebarScript[i].args]
    /\ UNCHANGED pageState
    /\ UNCHANGED tutorialVars

\* Some other script of the page changes the page's global state.
PageScript ==
    /\ \E v \in 0..MaxPageState : v # pageState /\ pageState' = v
    /\ UNCHANGED <<calls, loads>>
    /\ UNCHANGED tutorialVars

\* The reader is at a step with operation op; performing it moves on to the
\* next step of the document.
At(op) == pc <= Len(Steps) /\ Steps[pc].op = op

Advance ==
    /\ pc' = pc + 1
    /\ log' = Append(log, Steps[pc])
    /\ UNCHANGED sidebarVars

Compile ==
    /\ At("Compile")
    /\ compiled' = TRUE
    /\ Advance
    /\ UNCHANGED <<shell, connected, uploaded, displayed, rejected>>
    /\ UNCHANGED erc20Vars

NodeSetup ==
    /\ At("NodeSetup")
    /\ shell' = shell \o Commands
    /\ connected' = TRUE
    /\ Advance
    /\ UNCHANGED <<compiled, uploaded, displayed, rejected>>
    /\ UNCHANGED erc20Vars

Upload ==
    /\ At("Upload")
    /\ IF compiled /\ connected
         THEN /\ uploaded' = uploaded \cup {ContractFile}
              /\ UNCHANGED rejected
         ELSE /\ rejected' = rejected \cup {pc}
              /\ UNCHANGED uploaded
    /\ Advance
    /\ UNCHANGED <<compiled, shell, connected, displayed>>
    /\ UNCHANGED erc20Vars

Instantiate ==
    /\ At("Instantiate")
    /\ IF ContractFile \in uploaded /\ ~live
         THEN /\ live' = TRUE
              /\ balances' = Erc20New(Steps[pc].owner, Steps[pc].value)
              /\ allowances' = NoAllowances
              /\ UNCHANGED rejected
         ELSE /\ rejected' = rejected \cup {pc}
              /\ UNCHANGED erc20Vars
    /\ Advance
    /\ UNCHANGED <<compiled, shell, connected, uploaded, displayed>>

CheckBalance ==
    /\ At("CheckBalance")
    /\ IF live
         THEN /\ displayed' = [kind |-> "balance", of |-> balances]
              /\ UNCHANGED rejected
         ELSE /\ rejected' = rejected \cup {pc}
              /\ UNCHANGED displayed
    /\ Advance
    /\ UNCHANGED <<compiled, shell, connected, uploaded>>
    /\ UNCHANGED erc20Vars

Transfer ==
    /\ At("Transfer")
    /\ LET s == Steps[pc] IN
       IF live /\ CanTransfer(balances, s.owner, s.value)
         THEN /\ balances' = Erc20Transfer(balances, s.owner, s.to, s.value)
              /\ UNCHANGED rejected
         ELSE /\ rejected' = rejected \cup {pc}
              /\ UNCHANGED balances
    /\ Advance
    /\ UNCHANGED <<compiled, shell, connected, uploaded, displayed, live, allowances>>

Approve ==
    /\ At("Approve")
    /\ LET s == Steps[pc] IN
       IF live
         THEN /\ allowances' = Erc20Approve(allowances, s.owner, s.spender,
                                            s.value)
              /\ UNCHANGED rejected
         ELSE /\ rejected' = rejected \cup {pc}
              /\ UNCHANGED allowances
    /\ Advance
    /\ UNCHANGED <<compiled, shell, connected, uploaded, displayed, live, balances>>

CheckAllowance ==
    /\ At("CheckAllowance")
    /\ LET s == Steps[pc] IN
       IF live
         THEN /\ displayed' = [kind |-> "allowance",
                               of |-> allowances[<<s.owner, s.spender>>]]
              /\ UNCHANGED rejected
         ELSE /\ rejected' = rejected \cup {pc}
              /\ UNCHANGED displayed
    /\ Advance
    /\ UNCHANGED <<compiled, shell, connected, uploaded>>
    /\ UNCHANGED erc20Vars

TransferFrom ==
    /\ At("TransferFrom")
    /\ LET s == Steps[pc] IN
       IF /\ live
          /\ CanSpend(allowances, s.owner, s.spender, s.value)
          /\ CanTransfer(balances, s.owner, s.value)
         THEN /\ balances' = Erc20Transfer(balances, s.owner, s.to, s.value)
              /\ allowances' = Erc20Spend(allowances, s.owner, s.spender,
                                          s.value)
              /\ UNCHANGED rejected
         ELSE /\ rejected' = rejected \cup {pc}
              /\ UNCHANGED <<balances, allowances>>
    /\ Advance
    /\ UNCHANGED <<compiled, shell, connected, uploaded, displayed, live>>

Next ==
    \/ LoadSidebarItems
    \/ PageScript
    \/ Compile
    \/ NodeSetup
    \/ Upload
    \/ Instantiate
    \/ CheckBalance
    \/ Transfer
    \/ Approve
    \/ CheckAllowance
    \/ TransferFrom

Spec == Init /\ [][Next]_vars

TypeOK ==
    /\ loads \in 0..MaxLoads
    /\ pageState \in 0..MaxPageState
    /\ pc \in 1..(Len(Steps) + 1)
    /\ Len(log) = pc - 1
    /\ compiled \in BOOLEAN
    /\ connected \in BOOLEAN
    /\ live \in BOOLEAN
    /\ rejected \subseteq 1..Len(Steps)

----------------------------------------------------------------------------
\* Properties of the sidebar index

\* The argument of the i-th call of initSidebarItems.
Arg(i) == calls[i][1]

Categories == {"enum", "fn", "struct", "trait"}

\* A string is a sequence of UTF-16 code units.
CodeUnit == 0..65535
\* LF, CR, LINE SEPARATOR, PARAGRAPH SEPARATOR
LineBreaks == {10, 13, 8232, 8233}

\* a sorts strictly before b, comparing code unit by code unit.
StrLess(a, b) ==
    \E n \in 0..Len(a) :
        /\ n <= Len(b)
        /\ \A i \in 1..n : a[i] = b[i]
        /\ IF n = Len(a)
             THEN n < Len(b)
             ELSE n < Len(b) /\ a[n + 1] < b[n + 1]

\* The (category, index) positions of the entries of an index object.
Positions(o) == UNION {{<<k, j>> : j \in DOMAIN o[k]} : k \in DOMAIN o}

\* C1: the object passed to initSidebarItems has exactly the four keys
\* enum, fn, struct and trait.
C1_FourKeys ==
    \A i \in DOMAIN calls : DOMAIN Arg(i) = Categories

C1_Witness ==
    /\ Len(calls) >= 1
    /\ \A k \in Categories : k \in DOMAIN Arg(1)

\* C2: every category's value is a list of pairs of two strings, the
\* identifier non-empty and the description free of line breaks.
C2_Entries ==
    \A i \in DOMAIN calls : \A k \in DOMAIN Arg(i) :
        /\ DOMAIN Arg(i)[k] = 1..Len(Arg(i)[k])
        /\ \A j \in DOMAIN Arg(i)[k] :
            LET e == Arg(i)[k][j] IN
            /\ Len(e) = 2
            /\ e[1] \in Seq(CodeUnit)
            /\ e[2] \in Seq(CodeUnit)
            /\ Len(e[1]) > 0
            /\ \A c \in DOMAIN e[2] : e[2][c] \notin LineBreaks

C2_Witness ==
    /\ Len(calls) >= 1
    /\ \A k \in DOMAIN Arg(1) : Len(Arg(1)[k]) >= 1

\* C3: each load of the file makes exactly one call of initSidebarItems,
\* with one argument that is the same on every load, and changes nothing
\* else.
C3_OneConstantCall ==
    /\ [](Len(calls) = loads)
    /\ [](\A i \in DOMAIN calls : Len(calls[i]) = 1 /\ calls[i] = calls[1])
    /\ [][loads' # loads =>
            /\ Len(calls') = Len(calls) + 1
            /\ SubSeq(calls', 1, Len(calls)) = calls
            /\ pageState' = pageState
            /\ tutorialVars' = tutorialVars]_vars

C3_Witness ==
    /\ loads = MaxLoads
    /\ Len(calls) = loads

\* C9: no identifier occurs twice in the manifest, within a category or
\* across categories.
C9_UniqueIdentifiers ==
    \A i \in DOMAIN calls :
        \A p, q \in Positions(Arg(i)) :
            Arg(i)[p[1]][p[2]][1] = Arg(i)[q[1]][q[2]][1] => p = q

C9_Witness ==
    /\ Len(calls) >= 1
    /\ Cardinality(Positions(Arg(1))) = 12

\* C10: within every category the identifiers are in strictly ascending
\* lexicographic order.
C10_Sorted ==
    \A i \in DOMAIN calls : \A k \in DOMAIN Arg(i) :
        \A j \in 1..(Len(Arg(i)[k]) - 1) :
            StrLess(Arg(i)[k][j][1], Arg(i)[k][j + 1][1])

C10_Witness ==
    /\ Len(calls) >= 1
    /\ \E k \in DOMAIN Arg(1) : Len(Arg(1)[k]) >= 2

----------------------------------------------------------------------------
\* Properties of the tutorial

\* Every performed step with operation b has a step with operation a
\* before it.
Before(a, b) ==
    \A j \in DOMAIN log :
        log[j].op = b => \E i \in 1..(j - 1) : log[i].op = a

Erc20Ops == {"CheckBalance", "Transfer", "Approve", "CheckAllowance",
             "TransferFrom"}

\* C4: the steps form one linear sequence in which compile precedes node
\* setup, node setup precedes deploy and initialize, these precede every
\* balance, transfer, approve and allowance step, Alice's approve to
\* Charlie precedes Charlie's transfer from Alice, and that precedes the
\* check of the remaining allowance.
C4_PrerequisitesFirst ==
    /\ pc = Len(log) + 1
    /\ Before("Compile", "NodeSetup")
    /\ Before("NodeSetup", "Upload")
    /\ Before("Upload", "Instantiate")
    /\ \A op \in Erc20Ops : Before("Instantiate", op)
    /\ \A j \in DOMAIN log :
        log[j].op = "TransferFrom" =>
            \E i \in 1..(j - 1) :
                /\ log[i].op = "Approve"
                /\ log[i].owner = log[j].owner
                /\ log[i].spender = log[j].spender
    /\ \A j \in DOMAIN log :
        log[j].img = "allowance_remain" =>
            \E i \in 1..(j - 1) : log[i].op = "TransferFrom"

C4_Witness ==
    /\ pc = Len(Steps) + 1
    /\ \E j \in DOMAIN log : log[j].img = "allowance_remain"

\* C5: the allowance from Alice to Charlie shown by the check that follows
\* the approve of 300 and the transfer-from of 200 is 100.
C5_RemainingAllowance ==
    (Len(log) >= 1 /\ log[Len(log)].img = "allowance_remain") =>
        /\ displayed.kind = "allowance"
        /\ displayed.of = 300 - 200
        /\ displayed.of > 0
        /\ displayed.of < 300

C5_Witness ==
    /\ Len(log) >= 1
    /\ log[Len(log)].img = "allowance_remain"
    /\ \E i \in DOMAIN log : log[i].op = "Approve" /\ log[i].value = 300
    /\ \E i \in DOMAIN log : log[i].op = "TransferFrom" /\ log[i].value = 200
    /\ allowances[<<"Alice", "Charlie">>] = 100

\* C7: the tutorial runs exactly one command line, the
\* substrate-contracts-node binary with exactly the flags --dev and --tmp.
C7_OneCommand ==
    /\ Len(shell) = (IF \E j \in DOMAIN log : log[j].op = "NodeSetup"
                       THEN 1 ELSE 0)
    /\ \A i \in DOMAIN shell :
        /\ shell[i].path[Len(shell[i].path)] = "substrate-contracts-node"
        /\ Len(shell[i].args) = 2
        /\ {shell[i].args[a] : a \in DOMAIN shell[i].args}
              = {"--dev", "--tmp"}

C7_Witness ==
    /\ pc = Len(Steps) + 1
    /\ Len(shell) = 1

\* C8: replayed in order from a supply of 1000 held by Alice, no step of the
\* tutorial is rejected: the transfer of 100 finds Alice's balance at least
\* 100, the transfer-from of 200 finds the allowance 300 and Alice's
\* balance 900, and no balance or allowance is ever negative.
C8_NothingRejected ==
    /\ rejected = {}
    /\ \A a \in Accounts : balances[a] >= 0
    /\ \A p \in Accounts \X Accounts : allowances[p] >= 0
    /\ At("Transfer") =>
        /\ Steps[pc].value = 100
        /\ balances["Alice"] >= 100
    /\ At("TransferFrom") =>
        /\ Steps[pc].value = 200
        /\ allowances[<<"Alice", "Charlie">>] = 300
        /\ balances["Alice"] = 900
    /\ (live /\ log[Len(log)].op = "Instantiate") =>
        /\ balances = [a \in Accounts |-> IF a = "Alice" THEN 1000 ELSE 0]
        /\ \A p \in Accounts \X Accounts : allowances[p] = 0

C8_Witness ==
    /\ pc = Len(Steps) + 1
    /\ rejected = {}
    /\ balances = [a \in Accounts |->
                     CASE a = "Alice" -> 700
                       [] a = "Bob" -> 300
                       [] OTHER -> 0]
====
